---- MODULE Spec2Model ----
(***************************************************************************)
(* Model of spring_boot_exporter.py: a thread-per-request HTTP exporter    *)
(* that, on every GET, lists the containers of the local Rancher host,     *)
(* scrapes each one's /metrics endpoint and registers the values in a      *)
(* fresh prometheus registry.                                              *)
(*                                                                         *)
(* Strings the code only compares (host names, states, ips) are TLA+       *)
(* strings.  Strings the code searches, splits or slices (images, the      *)
(* --image-filter value, raw metric keys) are sequences of one-character   *)
(* strings.  Python's None is the one-element sequence <<"None">> where a  *)
(* sequence is expected and the string "None" where a string is.           *)
(***************************************************************************)
EXTENDS Integers, Sequences, FiniteSets, TLC

VARIABLES
    PARSED,          \* module global: [rancher, image_filter]
    clients,         \* workers of the threading server that receive GET requests
    hosts_api,       \* orchestrator: possible answers of {base}hosts
    containers_api,  \* orchestrator: url -> page [data, pagination] of {base}containers
    endpoint,        \* instances: ip -> set of answers http://{ip}:8080/metrics may give
    pc,              \* per worker: position in do_GET / generate_registry
    filterPattern,   \* per worker: RancherClient.filterPattern
    hosts_metadata,  \* per worker: RancherClient.hosts_metadata
    self_host,       \* per worker: RancherClient.self_host
    url,             \* per worker: loop variable of get_spring_boot_apps
    result,          \* per worker: list built by get_spring_boot_apps
    app_i,           \* per worker: position of `for app in ...` of generate_registry
    registry,        \* per registry: the collectors registered in it
    counters,        \* per worker: MetricsReader._counters, name -> Counter (its children)
    gauges,          \* per worker: MetricsReader._gauges
    summaries,       \* per worker: MetricsReader._summaries
    error,           \* per worker: exception that left the handler, or "None"
    response,        \* per worker: status codes sent to the client, <<>> when none was
    output,          \* per worker: the body written by do_GET
    fetched,         \* per worker: urls load_url was asked for by get_spring_boot_apps
    scrapes,         \* per worker: <<app, answer>> of every load_metrics call
    constructed      \* per worker: <<kind, name>> of every Counter/Gauge/Summary(...) call

vars == <<PARSED, clients, hosts_api, containers_api, endpoint, pc, filterPattern,
          hosts_metadata, self_host, url, result, app_i, registry, counters, gauges,
          summaries, error, response, output, fetched, scrapes, constructed>>

----------------------------------------------------------------------------
(* Bounds of the model. *)
NumWorkers == 2
MaxPages == 3
MaxPerPage == 2
MaxFilterLen == 3
MaxImageLen == 2
MaxTailLen == 2
MaxMetrics == 2

(* Program constants. *)
CounterStrip == 8
GaugeStrip == 6
HTTP_OK == 200
HTTP_ERROR == 500

Workers == 1..NumWorkers
None == <<"None">>
NoneStr == "None"

----------------------------------------------------------------------------
(* Python string primitives, on sequences of characters. *)

\* s[k:]
Slice(s, k) == IF k >= Len(s) THEN <<>> ELSE SubSeq(s, k + 1, Len(s))

\* the 0-based positions at which sub occurs in s
Occurrences(s, sub) ==
    { i \in 0..(Len(s) - Len(sub)) : SubSeq(s, i + 1, i + Len(sub)) = sub }

\* s.find(sub): lowest position of sub in s, -1 when there is none
Find(s, sub) ==
    IF Occurrences(s, sub) = {} THEN -1
    ELSE CHOOSE i \in Occurrences(s, sub) : \A j \in Occurrences(s, sub) : i <= j

\* s.split(sep) for a one-character sep: empty pieces are kept
RECURSIVE Split(_, _)
Split(s, sep) ==
    IF Find(s, <<sep>>) = -1 THEN <<s>>
    ELSE <<SubSeq(s, 1, Find(s, <<sep>>))>> \o Split(Slice(s, Find(s, <<sep>>) + 1), sep)

\* re.sub(r'[\.\-]', '_', m)
RECURSIVE ReSub(_)
ReSub(m) ==
    IF m = <<>> THEN <<>>
    ELSE <<IF Head(m) \in {".", "-"} THEN "_" ELSE Head(m)>> \o ReSub(Tail(m))

\* d.get(k, default) of a dict
DictGet(d, k, default) == IF k \in DOMAIN d THEN d[k] ELSE default

----------------------------------------------------------------------------
(* RancherClient *)

\* RancherClient.__init__: self.filterPattern.  The falsy values None and [] are
\* both written <<>> (str.split never returns []).
InitFilterPattern(image_filter) ==
    IF image_filter = None \/ image_filter = <<>> THEN <<>>
    ELSE Split(image_filter, ",")

\* load_hosts_metadata: the dict built from data['data'], a later entry
\* overwriting an earlier one with the same id
HostsDict(data) ==
    [id \in {data[i].id : i \in DOMAIN data} |->
        LET last == CHOOSE i \in DOMAIN data :
                        /\ data[i].id = id
                        /\ \A j \in DOMAIN data : data[j].id = id => j <= i
        IN data[last].hostname]

\* RancherClient.filter with a pattern accepted only at the start of the image
filter_prefix(fp, sh, data) ==
    IF data.host # sh THEN FALSE
    ELSE IF data.state = "stopped" THEN FALSE
    ELSE IF fp = <<>> THEN TRUE
    ELSE \E i \in DOMAIN fp : Find(data.image, fp[i]) = 0

\* RancherClient.filter
filter(fp, sh, data) ==
    IF data.host # sh THEN FALSE
    ELSE IF data.state = "stopped" THEN FALSE
    ELSE IF fp = <<>> THEN TRUE
    ELSE \E i \in DOMAIN fp : Find(data.image, fp[i]) # -1

\* _get_spring_boot_app_host: self.hosts_metadata[container['hostId']], a
\* KeyError when the id is not a key
HostKnown(hm, container) == container.hostId \in DOMAIN hm

\* the dict built by _extract_spring_boot_apps for one container
AppData(hm, container) ==
    [image |-> container.imageUuid,
     name |-> container.name,
     ip |-> container.primaryIpAddress,
     stack_name |-> DictGet(container.labels, "io.rancher.stack.name", NoneStr),
     state |-> container.state,
     host |-> hm[container.hostId]]

\* _extract_spring_boot_apps that skips a container whose host is unknown
RECURSIVE ExtractApps_skip(_, _, _, _, _)
ExtractApps_skip(containers, acc, hm, fp, sh) ==
    IF containers = <<>> THEN [result |-> acc, error |-> NoneStr]
    ELSE IF ~HostKnown(hm, Head(containers))
    THEN ExtractApps_skip(Tail(containers), acc, hm, fp, sh)
    ELSE LET data == AppData(hm, Head(containers))
         IN ExtractApps_skip(Tail(containers),
                             IF filter(fp, sh, data) THEN Append(acc, data) ELSE acc,
                             hm, fp, sh)

\* get_spring_boot_apps that reads the first page only
NextUrl_first_page(parsed_data) == None

\* get_spring_boot_apps: url = parsed_data['pagination']['next']
NextUrl(parsed_data) == parsed_data.pagination.next

\* _extract_spring_boot_apps: appends the visible containers to the list, in
\* order; stops at the first container whose host lookup raises
RECURSIVE ExtractApps(_, _, _, _, _)
ExtractApps(containers, acc, hm, fp, sh) ==
    IF containers = <<>> THEN [result |-> acc, error |-> NoneStr]
    ELSE IF ~HostKnown(hm, Head(containers)) THEN [result |-> acc, error |-> "KeyError"]
    ELSE LET data == AppData(hm, Head(containers))
         IN ExtractApps(Tail(containers),
                        IF filter(fp, sh, data) THEN Append(acc, data) ELSE acc,
                        hm, fp, sh)

----------------------------------------------------------------------------
(* MetricsReader and the prometheus registry it fills *)

\* the labels every series of an app carries
Labels(app) == [name |-> app.name, stackName |-> app.stack_name, ip |-> app.ip]

\* prometheus_client accepts a metric name only if it is not empty (the other
\* characters of the model's alphabet are all legal after sanitizing, and no
\* name of the model ends in a suffix the library reserves)
ValidMetricName(name) == name # <<>>

\* Counter/Gauge/Summary(name, ..., registry=self.registry): the constructor
\* call is recorded; the registry refuses an illegal name and a name it
\* already holds (ValueError), else the new collector is registered
Construct(st, r, kind, name) ==
    LET st1 == [st EXCEPT !.constructed = Append(@, <<kind, name>>)]
    IN IF ~ValidMetricName(name) \/ \E ref \in st.registry : ref.name = name
       THEN [st1 EXCEPT !.error = "ValueError"]
       ELSE [st1 EXCEPT !.registry = @ \cup {[owner |-> r, kind |-> kind, name |-> name]}]

\* a counter child that keeps the last amount only
CounterInc_overwrite(old, value) == value

\* Counter child .inc(value): adds; a negative amount is refused (ValueError)
CounterInc(old, value) == old + value

\* Gauge child .set(value)
GaugeSet(old, value) == value

\* Summary child .observe(value)
SummaryObserve(old, value) == [count |-> old.count + 1, sum |-> old.sum + value]

\* .labels(...): the child of the label set, created at zero on first use
Child(children, lab, zero) == IF lab \in DOMAIN children THEN children[lab] ELSE zero

\* children with the child of lab replaced
SetChild(children, lab, v) ==
    [l \in DOMAIN children \cup {lab} |-> IF l = lab THEN v ELSE children[l]]

\* dict with d[k] = v
DictSet(d, k, v) == [x \in DOMAIN d \cup {k} |-> IF x = k THEN v ELSE d[x]]

\* MetricsReader._register_counter
register_counter(st, r, app, metric_name, value) ==
    LET st1 == IF metric_name \notin DOMAIN st.counters
               THEN LET c == Construct(st, r, "counter", metric_name)
                    IN IF c.error # NoneStr THEN c
                       ELSE [c EXCEPT !.counters = DictSet(@, metric_name, <<>>)]
               ELSE st
    IN IF st1.error # NoneStr THEN st1
       ELSE LET children == st1.counters[metric_name]
                old == Child(children, Labels(app), 0)
            IN IF value < 0
               THEN [st1 EXCEPT !.counters = DictSet(@, metric_name,
                                                SetChild(children, Labels(app), old)),
                                !.error = "ValueError"]
               ELSE [st1 EXCEPT !.counters = DictSet(@, metric_name,
                                   SetChild(children, Labels(app), CounterInc(old, value)))]

\* MetricsReader._register_gauge
register_gauge(st, r, app, metric_name, value) ==
    LET st1 == IF metric_name \notin DOMAIN st.gauges
               THEN LET c == Construct(st, r, "gauge", metric_name)
                    IN IF c.error # NoneStr THEN c
                       ELSE [c EXCEPT !.gauges = DictSet(@, metric_name, <<>>)]
               ELSE st
    IN IF st1.error # NoneStr THEN st1
       ELSE LET children == st1.gauges[metric_name]
                old == Child(children, Labels(app), 0)
            IN [st1 EXCEPT !.gauges = DictSet(@, metric_name,
                                   SetChild(children, Labels(app), GaugeSet(old, value)))]

\* MetricsReader._register_summary
register_summary(st, r, app, metric_name, value) ==
    LET st1 == IF metric_name \notin DOMAIN st.summaries
               THEN LET c == Construct(st, r, "summary", metric_name)
                    IN IF c.error # NoneStr THEN c
                       ELSE [c EXCEPT !.summaries = DictSet(@, metric_name, <<>>)]
               ELSE st
    IN IF st1.error # NoneStr THEN st1
       ELSE LET children == st1.summaries[metric_name]
                old == Child(children, Labels(app), [count |-> 0, sum |-> 0])
            IN [st1 EXCEPT !.summaries = DictSet(@, metric_name,
                                   SetChild(children, Labels(app), SummaryObserve(old, value)))]

\* the words 'counter' and 'gauge' register_metrics looks for
CounterPrefix == <<"c", "o", "u", "n", "t", "e", "r">>
GaugePrefix == <<"g", "a", "u", "g", "e">>

\* the kind register_metrics gives a raw key
KindOf(m) ==
    IF Find(m, CounterPrefix) = 0 THEN "counter"
    ELSE IF Find(m, GaugePrefix) = 0 THEN "gauge"
    ELSE "summary"

\* the metric name with only the word 'counter' stripped, not its separator
NameOf_short(m) ==
    IF KindOf(m) = "counter" THEN Slice(ReSub(m), CounterStrip - 1)
    ELSE IF KindOf(m) = "gauge" THEN Slice(ReSub(m), GaugeStrip)
    ELSE ReSub(m)

\* the metric name register_metrics gives a raw key
NameOf(m) ==
    IF KindOf(m) = "counter" THEN Slice(ReSub(m), CounterStrip)
    ELSE IF KindOf(m) = "gauge" THEN Slice(ReSub(m), GaugeStrip)
    ELSE ReSub(m)

\* one turn of the loop `for m in metrics` of register_metrics
RegisterOne(st, r, app, m, value) ==
    IF KindOf(m) = "counter" THEN register_counter(st, r, app, NameOf(m), value)
    ELSE IF KindOf(m) = "gauge" THEN register_gauge(st, r, app, NameOf(m), value)
    ELSE register_summary(st, r, app, NameOf(m), value)

\* the loop `for m in metrics`, left at the first exception
RECURSIVE RegisterAll(_, _, _, _)
RegisterAll(st, r, app, metrics) ==
    IF metrics = <<>> \/ st.error # NoneStr THEN st
    ELSE RegisterAll(RegisterOne(st, r, app, Head(metrics).key, Head(metrics).value),
                     r, app, Tail(metrics))

\* load_metrics with no except clause that catches the failed request
LoadMetricsRaises_uncaught(answer) == answer.status \in {"timeout", "malformed"}

\* MetricsReader.load_metrics raises: only requests.get is inside the try, so
\* a failed request is caught, while json.loads of the body is outside it
LoadMetricsRaises(answer) == answer.status = "malformed"

\* MetricsReader.register_metrics for one app and the answer of its endpoint
RegisterMetrics(st, r, app, answer) ==
    IF LoadMetricsRaises(answer)
    THEN [st EXCEPT !.error = IF answer.status = "malformed" THEN "JSONDecodeError"
                              ELSE "Timeout"]
    ELSE IF answer.status = "timeout" THEN st
    ELSE RegisterAll(st, r, app, answer.metrics)

----------------------------------------------------------------------------
(* generate_registry and do_GET, one action per network call *)

\* one registry for the whole process
RegistryOf_shared(r) == 1

\* generate_registry: `registry = CollectorRegistry(auto_describe=True)` is a
\* local of the call, so each request has a registry of its own
RegistryOf(r) == r

\* url of the first page: self.rancherApiUrl + 'containers'
ContainersUrl == <<"containers", 1>>

\* what the reader of worker r and its registry hold
ReaderState(r) ==
    [registry |-> registry[RegistryOf(r)], counters |-> counters[r],
     gauges |-> gauges[r], summaries |-> summaries[r],
     error |-> NoneStr, constructed |-> constructed[r]]

\* the children of a registered collector, read through its owner's reader
Children(ref) ==
    LET d == IF ref.kind = "counter" THEN counters[ref.owner]
             ELSE IF ref.kind = "gauge" THEN gauges[ref.owner]
             ELSE summaries[ref.owner]
    IN IF ref.name \in DOMAIN d THEN d[ref.name] ELSE <<>>

\* generate_latest(registry): every collector with its labelled samples
Exposition(g) ==
    { [kind |-> ref.kind, name |-> ref.name, samples |-> Children(ref)] : ref \in registry[g] }

\* `if 'name[]' in params: registry.restricted_registry(params['name[]'])`:
\* only the collectors named; <<>> stands for a query without name[]
Restricted(families, names) ==
    IF names = <<>> THEN families
    ELSE { f \in families : \E i \in DOMAIN names : names[i] = f.name }

\* an exception leaves do_GET before any response is sent: the server thread
\* reports it and closes the connection
Raise(r, exc) ==
    /\ error' = [error EXCEPT ![r] = exc]
    /\ response' = [response EXCEPT ![r] = <<>>]
    /\ pc' = [pc EXCEPT ![r] = "done"]

\* do_GET is entered: generate_registry builds the registry, the reader and
\* the client up to its first request
do_GET(r) ==
    /\ r \in clients
    /\ pc[r] \in {"idle", "done"}
    /\ pc' = [pc EXCEPT ![r] = "load_hosts_metadata"]
    /\ registry' = [registry EXCEPT ![RegistryOf(r)] = {}]
    /\ counters' = [counters EXCEPT ![r] = <<>>]
    /\ gauges' = [gauges EXCEPT ![r] = <<>>]
    /\ summaries' = [summaries EXCEPT ![r] = <<>>]
    /\ filterPattern' = [filterPattern EXCEPT ![r] = InitFilterPattern(PARSED.image_filter)]
    /\ hosts_metadata' = [hosts_metadata EXCEPT ![r] = <<>>]
    /\ self_host' = [self_host EXCEPT ![r] = NoneStr]
    /\ url' = [url EXCEPT ![r] = None]
    /\ result' = [result EXCEPT ![r] = <<>>]
    /\ app_i' = [app_i EXCEPT ![r] = 0]
    /\ error' = [error EXCEPT ![r] = NoneStr]
    /\ response' = [response EXCEPT ![r] = <<>>]
    /\ output' = [output EXCEPT ![r] = {}]
    /\ fetched' = [fetched EXCEPT ![r] = <<>>]
    /\ scrapes' = [scrapes EXCEPT ![r] = <<>>]
    /\ constructed' = [constructed EXCEPT ![r] = <<>>]
    /\ UNCHANGED <<PARSED, clients, hosts_api, containers_api, endpoint>>

\* RancherClient.load_hosts_metadata
load_hosts_metadata(r) ==
    /\ pc[r] = "load_hosts_metadata"
    /\ \E answer \in hosts_api :
         IF answer.status # "ok"
         THEN /\ Raise(r, IF answer.status = "unreachable" THEN "ConnectionError"
                          ELSE "JSONDecodeError")
              /\ UNCHANGED hosts_metadata
         ELSE /\ hosts_metadata' = [hosts_metadata EXCEPT ![r] = HostsDict(answer.data)]
              /\ pc' = [pc EXCEPT ![r] = "get_self_hostname"]
              /\ UNCHANGED <<error, response>>
    /\ UNCHANGED <<PARSED, clients, hosts_api, containers_api, endpoint, filterPattern,
                   self_host, url, result, app_i, registry, counters, gauges, summaries,
                   output, fetched, scrapes, constructed>>

\* the answers of the metadata service to /self/host/hostName
SelfHostAnswers == {"unreachable", "undecodable", "node-a", "node-b"}

\* RancherClient.get_self_hostname, then the first line of get_spring_boot_apps
get_self_hostname(r) ==
    /\ pc[r] = "get_self_hostname"
    /\ \E answer \in SelfHostAnswers :
         IF answer \in {"unreachable", "undecodable"}
         THEN /\ Raise(r, IF answer = "unreachable" THEN "ConnectionError"
                          ELSE "UnicodeDecodeError")
              /\ UNCHANGED <<self_host, url>>
         ELSE /\ self_host' = [self_host EXCEPT ![r] = answer]
              /\ url' = [url EXCEPT ![r] = ContainersUrl]
              /\ pc' = [pc EXCEPT ![r] = "get_spring_boot_apps"]
              /\ UNCHANGED <<error, response>>
    /\ UNCHANGED <<PARSED, clients, hosts_api, containers_api, endpoint, filterPattern,
                   hosts_metadata, result, app_i, registry, counters, gauges, summaries,
                   output, fetched, scrapes, constructed>>

\* where generate_registry goes once it holds `n` apps and has done `i - 1`
AfterApp(i, n) == IF i > n THEN "generate_latest" ELSE "register_metrics"

\* one turn of the loop `while url` of get_spring_boot_apps
get_spring_boot_apps(r) ==
    /\ pc[r] = "get_spring_boot_apps"
    /\ url[r] # None
    /\ fetched' = [fetched EXCEPT ![r] = Append(@, url[r])]
    /\ \E status \in {"ok", "unreachable", "malformed"} :
         IF status # "ok" \/ url[r] \notin DOMAIN containers_api
         THEN /\ Raise(r, IF status = "malformed" THEN "JSONDecodeError"
                          ELSE "ConnectionError")
              /\ UNCHANGED <<url, result, app_i>>
         ELSE LET parsed_data == containers_api[url[r]]
                  got == ExtractApps(parsed_data.data, result[r], hosts_metadata[r],
                                     filterPattern[r], self_host[r])
                  next == NextUrl(parsed_data)
              IN IF got.error # NoneStr
                 THEN /\ Raise(r, got.error)
                      /\ result' = [result EXCEPT ![r] = got.result]
                      /\ UNCHANGED <<url, app_i>>
                 ELSE /\ result' = [result EXCEPT ![r] = got.result]
                      /\ url' = [url EXCEPT ![r] = next]
                      /\ app_i' = [app_i EXCEPT ![r] = IF next = None THEN 1 ELSE 0]
                      /\ pc' = [pc EXCEPT ![r] = IF next = None
                                                 THEN AfterApp(1, Len(got.result))
                                                 ELSE "get_spring_boot_apps"]
                      /\ UNCHANGED <<error, response>>
    /\ UNCHANGED <<PARSED, clients, hosts_api, containers_api, endpoint, filterPattern,
                   hosts_metadata, self_host, registry, counters, gauges, summaries,
                   output, scrapes, constructed>>

\* one turn of the loop `for app in ...` of generate_registry:
\* reader.register_metrics(app)
register_metrics(r) ==
    /\ pc[r] = "register_metrics"
    /\ app_i[r] \in DOMAIN result[r]
    /\ LET app == result[r][app_i[r]]
       IN \E answer \in endpoint[app.ip] :
            LET st == RegisterMetrics(ReaderState(r), r, app, answer)
            IN /\ scrapes' = [scrapes EXCEPT ![r] = Append(@, <<app, answer>>)]
               /\ registry' = [registry EXCEPT ![RegistryOf(r)] = st.registry]
               /\ counters' = [counters EXCEPT ![r] = st.counters]
               /\ gauges' = [gauges EXCEPT ![r] = st.gauges]
               /\ summaries' = [summaries EXCEPT ![r] = st.summaries]
               /\ constructed' = [constructed EXCEPT ![r] = st.constructed]
               /\ IF st.error # NoneStr
                  THEN /\ Raise(r, st.error)
                       /\ UNCHANGED app_i
                  ELSE /\ app_i' = [app_i EXCEPT ![r] = @ + 1]
                       /\ pc' = [pc EXCEPT ![r] = AfterApp(app_i[r] + 1, Len(result[r]))]
                       /\ UNCHANGED <<error, response>>
    /\ UNCHANGED <<PARSED, clients, hosts_api, containers_api, endpoint, filterPattern,
                   hosts_metadata, self_host, url, result, output, fetched>>

\* the values of the name[] query parameter a request may carry
QueryNames == {<<>>, <<<<"x">>>>}

\* the rest of do_GET: restricted_registry, generate_latest, the response
generate_latest(r) ==
    /\ pc[r] = "generate_latest"
    /\ \E names \in QueryNames, serialized \in BOOLEAN :
         IF serialized
         THEN /\ output' = [output EXCEPT ![r] = Restricted(Exposition(RegistryOf(r)), names)]
              /\ response' = [response EXCEPT ![r] = <<HTTP_OK>>]
              /\ UNCHANGED error
         ELSE /\ response' = [response EXCEPT ![r] = <<HTTP_ERROR>>]
              /\ error' = [error EXCEPT ![r] = "SerializationError"]
              /\ UNCHANGED output
    /\ pc' = [pc EXCEPT ![r] = "done"]
    /\ UNCHANGED <<PARSED, clients, hosts_api, containers_api, endpoint, filterPattern,
                   hosts_metadata, self_host, url, result, app_i, registry, counters,
                   gauges, summaries, fetched, scrapes, constructed>>

Next ==
    \E r \in Workers :
        \/ do_GET(r)
        \/ load_hosts_metadata(r)
        \/ get_self_hostname(r)
        \/ get_spring_boot_apps(r)
        \/ register_metrics(r)
        \/ generate_latest(r)

----------------------------------------------------------------------------
(* The worlds the exporter runs in *)

\* all sequences over S of length at most n
SeqsUpTo(S, n) == UNION { [1..k -> S] : k \in 0..n }

HostsFull == <<[id |-> "h1", hostname |-> "node-a"], [id |-> "h2", hostname |-> "node-b"]>>
HostsPartial == <<[id |-> "h1", hostname |-> "node-a"]>>
HostsOk(data) == [status |-> "ok", data |-> data]
HostsFailed(how) == [status |-> how, data |-> <<>>]

Ips == {"10.0.0.5", "10.0.0.6"}

Container(hostId, state, image, ip, labels) ==
    [imageUuid |-> image, name |-> "svc", primaryIpAddress |-> ip, labels |-> labels,
     state |-> state, hostId |-> hostId]

NoLabels == <<>>
StackLabel == [k \in {"io.rancher.stack.name"} |-> "web"]

\* the pages of {base}containers as a chain: page i links to page i + 1 and
\* the last page has a null next
Chain(pages) ==
    [u \in { <<"containers", i>> : i \in DOMAIN pages } |->
        [data |-> pages[u[2]],
         pagination |-> [next |-> IF u[2] < Len(pages) THEN <<"containers", u[2] + 1>>
                                  ELSE None]]]

Timeout == [status |-> "timeout", metrics |-> <<>>]
Malformed == [status |-> "malformed", metrics |-> <<>>]
Metrics(ms) == [status |-> "ok", metrics |-> ms]

\* a JSON object of at most n members with distinct keys, in document order
MetricDicts(keys, values, n) ==
    { ms \in SeqsUpTo([key : keys, value : values], n) :
        \A i, j \in DOMAIN ms : i # j => ms[i].key # ms[j].key }

\* the state of every worker before its first request
InitWorkers ==
    /\ pc = [r \in Workers |-> "idle"]
    /\ filterPattern = [r \in Workers |-> <<>>]
    /\ hosts_metadata = [r \in Workers |-> <<>>]
    /\ self_host = [r \in Workers |-> NoneStr]
    /\ url = [r \in Workers |-> None]
    /\ result = [r \in Workers |-> <<>>]
    /\ app_i = [r \in Workers |-> 0]
    /\ registry = [g \in Workers |-> {}]
    /\ counters = [r \in Workers |-> <<>>]
    /\ gauges = [r \in Workers |-> <<>>]
    /\ summaries = [r \in Workers |-> <<>>]
    /\ error = [r \in Workers |-> NoneStr]
    /\ response = [r \in Workers |-> <<>>]
    /\ output = [r \in Workers |-> {}]
    /\ fetched = [r \in Workers |-> <<>>]
    /\ scrapes = [r \in Workers |-> <<>>]
    /\ constructed = [r \in Workers |-> <<>>]

\* concurrent requests against two running instances whose metrics change
ServerAnswers(ip) ==
    IF ip = "10.0.0.5"
    THEN {Timeout, Malformed,
          Metrics(<<[key |-> CounterPrefix \o <<".", "x">>, value |-> 1]>>),
          Metrics(<<[key |-> CounterPrefix \o <<".", "x">>, value |-> 2],
                    [key |-> GaugePrefix \o <<".", "y">>, value |-> 1]>>)}
    ELSE {Timeout,
          Metrics(<<[key |-> CounterPrefix \o <<"-", "x">>, value |-> 2]>>),
          Metrics(<<[key |-> <<"y">>, value |-> 1]>>)}

Init ==
    /\ InitWorkers
    /\ clients = Workers
    /\ PARSED = [rancher |-> "http://rancher/v1/", image_filter |-> None]
    /\ hosts_api = {HostsFailed("unreachable"), HostsFailed("malformed"), HostsOk(HostsFull)}
    /\ containers_api = Chain(<< <<Container("h1", "running", <<"a">>, "10.0.0.5", NoLabels),
                                    Container("h1", "running", <<"a">>, "10.0.0.6", StackLabel)>> >>)
    /\ endpoint = [ip \in Ips |-> ServerAnswers(ip)]

Spec == Init /\ [][Next]_vars

----------------------------------------------------------------------------
(* One request against every combination of --image-filter, image, state and host *)

FilterStrings == SeqsUpTo({"a", "b", ","}, MaxFilterLen)
Images == SeqsUpTo({"a", "b"}, MaxImageLen)
States == {"running", "stopped", "starting"}

InitFilter ==
    /\ InitWorkers
    /\ clients = {1}
    /\ \E f \in FilterStrings \cup {None} :
         PARSED = [rancher |-> "http://rancher/v1/", image_filter |-> f]
    /\ hosts_api = {HostsOk(HostsFull)}
    /\ \E h \in {"h1", "h2"}, st \in States, im \in Images :
         containers_api = Chain(<< <<Container(h, st, im, "10.0.0.5", NoLabels)>> >>)
    /\ endpoint = [ip \in Ips |-> {Timeout}]

SpecFilter == InitFilter /\ [][Next]_vars

\* get_spring_boot_apps of worker r has returned its list
ListingDone(r) == fetched[r] # <<>> /\ url[r] = None

\* every container the orchestrator lists, page after page
RECURSIVE ListedFrom(_)
ListedFrom(u) ==
    IF u = None \/ u \notin DOMAIN containers_api THEN <<>>
    ELSE containers_api[u].data \o ListedFrom(containers_api[u].pagination.next)

\* the maximal comma-free pieces of an --image-filter value
ConfiguredPatterns(f) ==
    { p \in SeqsUpTo({"a", "b"}, Len(f)) :
        \E i \in 1..(Len(f) + 1) :
            /\ i + Len(p) - 1 <= Len(f)
            /\ SubSeq(f, i, i + Len(p) - 1) = p
            /\ (i = 1 \/ f[i - 1] = ",")
            /\ (i + Len(p) - 1 = Len(f) \/ f[i + Len(p)] = ",") }

NoPatternsConfigured(f) == f = None \/ f = <<>>

IsSubstring(p, s) == \E k \in 1..(Len(s) - Len(p) + 1) : SubSeq(s, k, k + Len(p) - 1) = p

\* C1 as the spec states it, for a container c seen by the client of worker r
VisibleByRule(r, c) ==
    /\ c.hostId \in DOMAIN hosts_metadata[r]
    /\ hosts_metadata[r][c.hostId] = self_host[r]
    /\ c.state # "stopped"
    /\ \/ NoPatternsConfigured(PARSED.image_filter)
       \/ \E p \in ConfiguredPatterns(PARSED.image_filter) : IsSubstring(p, c.imageUuid)

\* C1: once the listing has returned, a listed container is in the result if
\* and only if its resolved host is the self host, its state is not
\* 'stopped', and no pattern is configured or some configured pattern is a
\* substring of its image.
C1_FilterIff ==
    \A r \in Workers :
        ListingDone(r) =>
            \A i \in DOMAIN ListedFrom(ContainersUrl) :
                LET c == ListedFrom(ContainersUrl)[i]
                IN (\E k \in DOMAIN result[r] :
                        /\ result[r][k].image = c.imageUuid
                        /\ result[r][k].state = c.state
                        /\ result[r][k].ip = c.primaryIpAddress
                        /\ result[r][k].host = hosts_metadata[r][c.hostId])
                   <=> VisibleByRule(r, c)

\* C1 witness: a container accepted because the second of two configured
\* patterns, not the first, occurs inside its image
C1_Witness ==
    \E r \in Workers :
        /\ ListingDone(r)
        /\ Len(filterPattern[r]) = 2
        /\ Len(result[r]) = 1
        /\ ~IsSubstring(filterPattern[r][1], result[r][1].image)
        /\ Find(result[r][1].image, filterPattern[r][2]) >= 0

----------------------------------------------------------------------------
(* One request against one instance that reports one raw key *)

KeyTails == SeqsUpTo({".", "-", "x"}, MaxTailLen)
RawKeys == { pre \o mid \o tail : pre \in {<<>>, <<"x">>},
                                  mid \in {<<>>, CounterPrefix, GaugePrefix},
                                  tail \in KeyTails }

InitClassify ==
    /\ InitWorkers
    /\ clients = {1}
    /\ PARSED = [rancher |-> "http://rancher/v1/", image_filter |-> None]
    /\ hosts_api = {HostsOk(HostsFull)}
    /\ containers_api = Chain(<< <<Container("h1", "running", <<"a">>, "10.0.0.5", NoLabels)>> >>)
    /\ \E m \in RawKeys :
         endpoint = [ip \in Ips |-> {Metrics(<<[key |-> m, value |-> 1]>>)}]

SpecClassify == InitClassify /\ [][Next]_vars

StartsWith(s, p) == Len(s) >= Len(p) /\ \A i \in 1..Len(p) : s[i] = p[i]

\* every '.' and '-' replaced by '_', nothing else altered
Sanitized(m) == [i \in 1..Len(m) |-> IF m[i] = "." \/ m[i] = "-" THEN "_" ELSE m[i]]

\* s with its first n characters removed
DropFirst(s, n) == [i \in 1..(IF Len(s) > n THEN Len(s) - n ELSE 0) |-> s[i + n]]

\* C6 as the spec states it
ClassifiedByRule(m) ==
    IF StartsWith(m, CounterPrefix) THEN <<"counter", DropFirst(Sanitized(m), 8)>>
    ELSE IF StartsWith(m, GaugePrefix) THEN <<"gauge", DropFirst(Sanitized(m), 6)>>
    ELSE <<"summary", Sanitized(m)>>

\* C6: the metric object register_metrics asks for, for a raw key, is a
\* counter named by the sanitized key less its first 8 characters when the
\* key starts with 'counter', else a gauge named by the sanitized key less
\* its first 6 characters when it starts with 'gauge', else a summary named
\* by the whole sanitized key.
C6_Classification ==
    \A r \in Workers :
        (/\ Len(scrapes[r]) = 1
         /\ scrapes[r][1][2].status = "ok"
         /\ Len(scrapes[r][1][2].metrics) = 1)
        => constructed[r] = <<ClassifiedByRule(scrapes[r][1][2].metrics[1].key)>>

\* C6 witness: a key starting with 'counter' and holding a '-' was scraped
\* and its counter is in the registry
C6_Witness ==
    \E r \in Workers :
        /\ Len(scrapes[r]) = 1
        /\ scrapes[r][1][2].status = "ok"
        /\ Len(scrapes[r][1][2].metrics) = 1
        /\ StartsWith(scrapes[r][1][2].metrics[1].key, CounterPrefix)
        /\ \E i \in DOMAIN scrapes[r][1][2].metrics[1].key :
               scrapes[r][1][2].metrics[1].key[i] = "-"
        /\ \E ref \in registry[r] : ref.kind = "counter" /\ ref.name = <<"x">>

----------------------------------------------------------------------------
(* One request against every chain of container pages *)

\* the containers the orchestrator lists, in its listing order: two visible
\* ones, a stopped one, one on a host that may be missing from the mapping
Roster ==
    << Container("h1", "running", <<"a">>, "10.0.0.5", NoLabels),
       Container("h1", "running", <<"a">>, "10.0.0.6", StackLabel),
       Container("h1", "stopped", <<"a">>, "10.0.0.6", NoLabels),
       Container("h2", "stopped", <<"b">>, "10.0.0.5", NoLabels),
       Container("h1", "running", <<"a">>, "10.0.0.5", NoLabels) >>

\* a page holds at most MaxPerPage consecutive containers of the listing
Pages ==
    { SubSeq(Roster, i, j) : i \in 1..Len(Roster), j \in 0..Len(Roster) } \cap
    SeqsUpTo({ Roster[i] : i \in DOMAIN Roster }, MaxPerPage)

PageChains == { Chain(pages) : pages \in SeqsUpTo(Pages, MaxPages) \ {<<>>} }

InitList ==
    /\ InitWorkers
    /\ clients = {1}
    /\ PARSED = [rancher |-> "http://rancher/v1/", image_filter |-> None]
    /\ hosts_api = {HostsOk(HostsFull), HostsOk(HostsPartial)}
    /\ containers_api \in PageChains
    /\ endpoint = [ip \in Ips |-> {Timeout}]

SpecList == InitList /\ [][Next]_vars

\* the urls of the chain, from {base}containers on
ChainUrls == [i \in 1..Cardinality(DOMAIN containers_api) |-> <<"containers", i>>]

IsPrefix(s, t) == Len(s) <= Len(t) /\ \A i \in DOMAIN s : s[i] = t[i]

\* the visible instances of all pages, in page order and within-page order
VisibleListed(r) ==
    LET listed == ListedFrom(ContainersUrl)
        apps == [i \in DOMAIN listed |-> AppData(hosts_metadata[r], listed[i])]
        Visible(data) == filter(filterPattern[r], self_host[r], data)
    IN SelectSeq(apps, Visible)

\* C5: get_spring_boot_apps asks for the pages of a finite chain in chain
\* order, each at most once and starting at {base}containers; when it
\* returns it has asked for every page exactly once and its list is exactly
\* the visible instances of all pages, in page order and within-page order.
C5_Pagination ==
    \A r \in Workers :
        /\ IsPrefix(fetched[r], ChainUrls)
        /\ ListingDone(r) => /\ fetched[r] = ChainUrls
                             /\ result[r] = VisibleListed(r)

\* C5 witness: three pages of two visible instances each gave six instances
C5_Witness ==
    \E r \in Workers :
        /\ ListingDone(r)
        /\ Len(fetched[r]) = 3
        /\ \A u \in DOMAIN containers_api : Len(containers_api[u].data) = 2
        /\ Len(result[r]) = 6
        /\ result[r][1] # result[r][2]

\* a listed container whose hostId the loaded host mapping of r does not hold
UnresolvedListed(r) ==
    \E i \in DOMAIN ListedFrom(ContainersUrl) :
        ListedFrom(ContainersUrl)[i].hostId \notin DOMAIN hosts_metadata[r]

\* C8: no container page is asked for before the host mapping and the self
\* hostname are loaded, and a build whose host mapping lacks the hostId of any
\* listed container, whatever its state or image, never returns its list,
\* scrapes nothing and answers no 200: it fails instead of skipping.
C8_HostResolution ==
    \A r \in Workers :
        /\ fetched[r] # <<>> => /\ DOMAIN hosts_metadata[r] # {}
                                /\ self_host[r] # NoneStr
        /\ UnresolvedListed(r) => /\ ~ListingDone(r)
                                  /\ pc[r] \notin {"register_metrics", "generate_latest"}
                                  /\ scrapes[r] = <<>>
                                  /\ response[r] = <<>>
                                  /\ output[r] = {}

\* C8 witness: the build failed with KeyError on the second page, on a
\* stopped container that the filter would have dropped
C8_Witness ==
    \E r \in Workers :
        /\ error[r] = "KeyError"
        /\ pc[r] = "done"
        /\ Len(fetched[r]) = 2
        /\ \A i \in DOMAIN containers_api[<<"containers", 1>>].data :
               containers_api[<<"containers", 1>>].data[i].hostId \in DOMAIN hosts_metadata[r]
        /\ \E i \in DOMAIN containers_api[<<"containers", 2>>].data :
               /\ containers_api[<<"containers", 2>>].data[i].hostId \notin DOMAIN hosts_metadata[r]
               /\ containers_api[<<"containers", 2>>].data[i].state = "stopped"

----------------------------------------------------------------------------
(* One request against two visible instances and every answer of the first *)

ScrapeKeys ==
    { CounterPrefix \o <<".", "x">>, CounterPrefix \o <<"-", "x">>,
      GaugePrefix \o <<".", "x">>, <<"x">> }
ScrapeValues == {-1, 1, 2}

Answers ==
    {Timeout, Malformed}
        \cup { Metrics(ms) : ms \in MetricDicts(ScrapeKeys, ScrapeValues, MaxMetrics) }

FewAnswers ==
    {Timeout, Malformed}
        \cup { Metrics(<<[key |-> k, value |-> 2]>>) : k \in ScrapeKeys }

ScrapedPages ==
    LET A == Container("h1", "running", <<"a">>, "10.0.0.5", NoLabels)
        B == Container("h1", "running", <<"a">>, "10.0.0.6", StackLabel)
    IN {<<A, B>>, <<B, A>>, <<A, A>>}

InitScrape ==
    /\ InitWorkers
    /\ clients = {1}
    /\ PARSED = [rancher |-> "http://rancher/v1/", image_filter |-> None]
    /\ hosts_api = {HostsOk(HostsFull)}
    /\ \E page \in ScrapedPages : containers_api = Chain(<<page>>)
    /\ \E a \in Answers, b \in FewAnswers :
         endpoint = [ip \in Ips |-> IF ip = "10.0.0.5" THEN {a} ELSE {b}]

SpecScrape == InitScrape /\ [][Next]_vars

\* generate_registry of worker r has returned its registry
BuildFinished(r) == pc[r] = "generate_latest" \/ response[r] # <<>>

\* the registry of worker r holds a series of that name and label set
HasSeries(r, name, lab) ==
    \E ref \in registry[RegistryOf(r)] : ref.name = name /\ lab \in DOMAIN Children(ref)

\* C3: a scrape that timed out never aborts the build, and a finished build
\* has scraped every visible instance in list order: each instance that
\* answered has all its metrics in the registry, and an instance that only
\* timed out has no series.
C3_TimeoutSkipped ==
    \A r \in Workers :
        /\ \A i \in DOMAIN scrapes[r] :
               scrapes[r][i][2].status = "timeout" =>
                   /\ scrapes[r][i][1] = result[r][i]
                   /\ i = Len(scrapes[r]) => error[r] \in {NoneStr, "SerializationError"}
        /\ BuildFinished(r) =>
               /\ Len(scrapes[r]) = Len(result[r])
               /\ \A i \in DOMAIN scrapes[r] :
                      LET app == scrapes[r][i][1]
                          answer == scrapes[r][i][2]
                      IN /\ app = result[r][i]
                         /\ answer.status = "ok" =>
                                \A k \in DOMAIN answer.metrics :
                                    HasSeries(r, NameOf(answer.metrics[k].key), Labels(app))
                         /\ (\A j \in DOMAIN scrapes[r] :
                                 Labels(scrapes[r][j][1]) = Labels(app)
                                     => scrapes[r][j][2].status = "timeout")
                                => \A ref \in registry[RegistryOf(r)] :
                                       Labels(app) \notin DOMAIN Children(ref)

\* C3 witness: the first instance timed out, the second was still scraped and
\* its series are in the body of the 200 response
C3_Witness ==
    \E r \in Workers :
        /\ response[r] = <<HTTP_OK>>
        /\ Len(scrapes[r]) = 2
        /\ scrapes[r][1][2].status = "timeout"
        /\ scrapes[r][2][2].status = "ok"
        /\ \E f \in output[r] : Labels(scrapes[r][2][1]) \in DOMAIN f.samples

\* C3 witness, the other order: the instance listed last timed out
C3_WitnessAfter ==
    \E r \in Workers :
        /\ response[r] = <<HTTP_OK>>
        /\ Len(scrapes[r]) = 2
        /\ scrapes[r][2][2].status = "timeout"
        /\ \E f \in output[r] : Labels(scrapes[r][1][1]) \in DOMAIN f.samples

\* C4 as stated: an instance whose body is not valid JSON is treated as 'no
\* metrics': the build does not abort on it and, once the handler is done,
\* every visible instance was scraped.
C4_MalformedSkipped ==
    \A r \in Workers :
        \A i \in DOMAIN scrapes[r] :
            scrapes[r][i][2].status = "malformed" =>
                /\ error[r] \in {NoneStr, "SerializationError"}
                /\ pc[r] = "done" => Len(scrapes[r]) = Len(result[r])

\* C9 as stated: within one build a metric object is constructed at most once
\* per sanitized, prefix-stripped name, whatever the kinds of the keys that
\* map to it.
C9_OncePerName ==
    \A r \in Workers :
        \A i, j \in DOMAIN constructed[r] :
            i # j => constructed[r][i][2] # constructed[r][j][2]

\* every registration a build made, in order: the label set, kind, name and
\* value of each member of each answer
RECURSIVE Registrations(_)
Registrations(log) ==
    IF log = <<>> THEN <<>>
    ELSE LET app == Head(log)[1]
             answer == Head(log)[2]
         IN [k \in DOMAIN answer.metrics |->
                [lab |-> Labels(app), kind |-> KindOf(answer.metrics[k].key),
                 name |-> NameOf(answer.metrics[k].key),
                 value |-> answer.metrics[k].value]]
            \o Registrations(Tail(log))

RECURSIVE SumValues(_)
SumValues(regs) == IF regs = <<>> THEN 0 ELSE Head(regs).value + SumValues(Tail(regs))

\* the registrations of one name under one label set
RegistrationsOf(r, name, lab) ==
    LET Same(reg) == reg.name = name /\ reg.lab = lab
    IN SelectSeq(Registrations(scrapes[r]), Same)

----------------------------------------------------------------------------
(* Claims about the HTTP handler, under Spec *)

\* C2 as stated: a request whose registry build fails fatally (hosts or
\* containers unreachable or malformed, self hostname undecodable) or whose
\* serialization fails is answered with HTTP 500.
C2_FatalBuildAnswers500 ==
    \A r \in Workers :
        (pc[r] = "done" /\ error[r] # NoneStr) => response[r] = <<HTTP_ERROR>>

\* a reader and a registry nothing was registered in
EmptyReader ==
    [registry |-> {}, counters |-> <<>>, gauges |-> <<>>, summaries |-> <<>>,
     error |-> NoneStr, constructed |-> <<>>]

\* what a build alone in the process holds after the scrapes of a log
RECURSIVE Replay(_, _, _)
Replay(log, st, r) ==
    IF log = <<>> THEN st
    ELSE Replay(Tail(log), RegisterMetrics(st, r, Head(log)[1], Head(log)[2]), r)

\* the families a reader state exposes
FamiliesOf(st) ==
    { [kind |-> ref.kind, name |-> ref.name,
       samples |-> IF ref.kind = "counter" THEN st.counters[ref.name]
                   ELSE IF ref.kind = "gauge" THEN st.gauges[ref.name]
                   ELSE st.summaries[ref.name]] : ref \in st.registry }

====
